---------------------------- MODULE Spec2Model ----------------------------
(***************************************************************************)
(* The audio-to-notes request handler, in its two revisions:               *)
(*   "single"  src/api/process-audio.js  one AI call, JSON extraction      *)
(*   "two"     src/unnamed/part_000      two AI calls, no extraction       *)
(* One request is followed from the invocation of the handler to the       *)
(* settling of the promise it returns.  The handler's suspension points    *)
(* (await of the multipart parse, await of each generateContent call) are  *)
(* the boundaries of the actions.                                          *)
(***************************************************************************)
EXTENDS Integers, Sequences, FiniteSets, TLC

(***************************************************************************)
(* JavaScript values, as far as the handlers handle them.                  *)
(***************************************************************************)
Undefined == [type |-> "undefined", val |-> ""]

JSNull == [type |-> "null", val |-> ""]

Str(s) == [type |-> "string", val |-> s]

Num(s) == [type |-> "number", val |-> s]

Bool(s) == [type |-> "boolean", val |-> s]

\* ToBoolean: undefined, null, "", 0 and false are falsy.
Truthy(v) ==
  CASE v.type = "undefined" -> FALSE
    [] v.type = "null"      -> FALSE
    [] v.type = "string"    -> v.val # ""
    [] v.type = "number"    -> v.val # "0"
    [] v.type = "boolean"   -> v.val = "true"
    [] OTHER                -> TRUE

\* a || b
Or(a, b) == IF Truthy(a) THEN a ELSE b

Min(S) == CHOOSE x \in S : \A y \in S : x <= y

Max(S) == CHOOSE x \in S : \A y \in S : x >= y

(***************************************************************************)
(* File names are sequences of characters.                                 *)
(***************************************************************************)
Uppers == <<"A","B","C","D","E","F","G","H","I","J","K","L","M",
            "N","O","P","Q","R","S","T","U","V","W","X","Y","Z">>

Lowers == <<"a","b","c","d","e","f","g","h","i","j","k","l","m",
            "n","o","p","q","r","s","t","u","v","w","x","y","z">>

\* String.prototype.toLowerCase
toLowerCase(s) ==
  [i \in DOMAIN s |->
     IF \E k \in DOMAIN Uppers : Uppers[k] = s[i]
       THEN Lowers[CHOOSE k \in DOMAIN Uppers : Uppers[k] = s[i]]
       ELSE s[i]]

\* path.extname: from the last "." of the last path segment to the end; ""
\* when there is no ".", when the only "." starts the segment, or for "..".
extname(p) ==
  LET slashes == {i \in DOMAIN p : p[i] = "/"}
      from    == IF slashes = {} THEN 1 ELSE Max(slashes) + 1
      base    == SubSeq(p, from, Len(p))
      dots    == {i \in DOMAIN base : base[i] = "."}
  IN  IF dots = {} \/ Max(dots) = 1 \/ base = <<".", ".">>
        THEN <<>>
        ELSE SubSeq(base, Max(dots), Len(base))

mimeTypes ==
  [e \in {<<".","m","p","3">>, <<".","w","a","v">>, <<".","m","4","a">>,
          <<".","a","a","c">>, <<".","o","g","g">>, <<".","f","l","a","c">>} |->
     CASE e = <<".","m","p","3">>     -> Str("audio/mpeg")
       [] e = <<".","w","a","v">>     -> Str("audio/wav")
       [] e = <<".","m","4","a">>     -> Str("audio/mp4")
       [] e = <<".","a","a","c">>     -> Str("audio/aac")
       [] e = <<".","o","g","g">>     -> Str("audio/ogg")
       [] e = <<".","f","l","a","c">> -> Str("audio/flac")]

\* mimeTypes[ext]: a property read; undefined for a key the table lacks.
Lookup(ext) == IF ext \in DOMAIN mimeTypes THEN mimeTypes[ext] ELSE Undefined

\* getMimeType of src/api/process-audio.js
getMimeTypeSingle(filename) ==
  LET ext == toLowerCase(extname(filename))
  IN  Or(Lookup(ext), JSNull)

\* The default forgotten: a mutation of getMimeTypeTwo.
getMimeTypeTwoNoDefault(filename) ==
  LET ext == toLowerCase(extname(filename))
  IN  Or(Lookup(ext), JSNull)

\* getMimeType of src/unnamed/part_000
getMimeTypeTwo(filename) ==
  LET ext == toLowerCase(extname(filename))
  IN  Or(Lookup(ext), Str("audio/mpeg"))

\* req.file.originalname: multer keeps the base name of the uploaded file.
FileNames ==
  { <<"a",".","m","p","3">>,            \* a.mp3
    <<"A",".","M","P","3">>,            \* A.MP3
    <<"a",".","W","a","v">>,            \* a.Wav
    <<"a",".","m","4","a">>,            \* a.m4a
    <<"a",".","a","a","c">>,            \* a.aac
    <<"a",".","o","g","g">>,            \* a.ogg
    <<"a",".","f","l","a","c">>,        \* a.flac
    <<"a",".","x","y","z">>,            \* a.xyz
    <<"a",".","m","p","3",".","x">>,    \* a.mp3.x
    <<".","m","p","3">>,                \* .mp3
    <<"a">> }                           \* a

(***************************************************************************)
(* The text of an AI reply, as the single-call handler reads it: a         *)
(* sequence of tokens, each a fixed piece of text.                         *)
(*   "F"  three backticks            "J"  the word json                    *)
(*   "W"  white space                "x"  prose (no brace, no backtick)    *)
(*   "{"  an opening brace           "}"  a closing brace                  *)
(*   "n"  the JSON text null         "O"  a JSON object text, {"k":v,...}  *)
(* The members of the object text "O" are held beside the text (object).   *)
(***************************************************************************)
Tokens == {"F", "J", "W", "x", "{", "}", "n", "O"}

HasOpen(t) == t \in {"{", "O"}

HasClose(t) == t \in {"}", "O"}

\* The number of white-space tokens of s from position i on.
RECURSIVE spaces(_, _)
spaces(s, i) == IF i <= Len(s) /\ s[i] = "W" THEN 1 + spaces(s, i + 1) ELSE 0

\* s.replace(/```json\s*|\s*```/g, '') from position i on: at each position
\* the first alternative is tried before the second, a match is dropped and
\* the scan goes on after it, an unmatched token is kept.
RECURSIVE replaceFences(_, _)
replaceFences(s, i) ==
  IF i > Len(s) THEN <<>>
  ELSE IF s[i] = "F" /\ i < Len(s) /\ s[i + 1] = "J"
    THEN replaceFences(s, i + 2 + spaces(s, i + 2))
  ELSE IF i + spaces(s, i) <= Len(s) /\ s[i + spaces(s, i)] = "F"
    THEN replaceFences(s, i + spaces(s, i) + 1)
  ELSE <<s[i]>> \o replaceFences(s, i + 1)

\* String.prototype.trim
trim(s) ==
  LET keep == {i \in DOMAIN s : s[i] # "W"}
  IN  IF keep = {} THEN <<>> ELSE SubSeq(s, Min(keep), Max(keep))

\* responseText.replace(/```json\s*|\s*```/g, '').trim()
cleanResponse(text) == trim(replaceFences(text, 1))

\* A parsed JSON value: an object with its transcript and summary members
\* (Undefined for a member it lacks), or null.
ObjectValue(tr, su) == [kind |-> "object", transcript |-> tr, summary |-> su]

NullValue == [kind |-> "null", transcript |-> Undefined, summary |-> Undefined]

NoValue == [kind |-> "none", transcript |-> Undefined, summary |-> Undefined]

\* JSON.parse(s): ok with the value, or a SyntaxError.  White space may
\* surround the value; the values the tokens can spell are the object text,
\* null, and the empty object { }.
JSONparse(s, object) ==
  LET t == trim(s)
  IN  IF t = <<"O">> THEN [ok |-> TRUE, value |-> object]
      ELSE IF t = <<"n">> THEN [ok |-> TRUE, value |-> NullValue]
      ELSE IF /\ Len(t) >= 2
              /\ t[1] = "{"
              /\ t[Len(t)] = "}"
              /\ \A i \in 2..(Len(t) - 1) : t[i] = "W"
        THEN [ok |-> TRUE, value |-> ObjectValue(Undefined, Undefined)]
      ELSE [ok |-> FALSE, value |-> NoValue]

\* The match stops at the first closing brace: a mutation of matchBraces.
matchBracesLazy(s) ==
  LET starts == {i \in DOMAIN s :
                   HasOpen(s[i]) /\ \E j \in i..Len(s) : HasClose(s[j])}
  IN  IF starts = {} THEN <<>>
      ELSE LET b == Min(starts)
               e == Min({j \in b..Len(s) : HasClose(s[j])})
           IN  <<SubSeq(s, b, e)>>

\* s.match(/\{[\s\S]*\}/): the leftmost position a match starts at, and from
\* there the longest match.  <<>> for null, else <<the matched text>>.
matchBraces(s) ==
  LET starts == {i \in DOMAIN s :
                   HasOpen(s[i]) /\ \E j \in i..Len(s) : HasClose(s[j])}
  IN  IF starts = {} THEN <<>>
      ELSE LET b == Min(starts)
               e == Max({j \in b..Len(s) : HasClose(s[j])})
           IN  <<SubSeq(s, b, e)>>

(***************************************************************************)
(* The request, the environment and the provider.                          *)
(***************************************************************************)
\* What upload.single('audio') makes of the body: it calls back with an
\* error (a file over the size limit, a malformed body), or leaves req.file
\* undefined (no audio field), or sets req.file.
Uploads ==
  {[kind |-> "error", name |-> <<>>], [kind |-> "none", name |-> <<>>]}
    \cup {[kind |-> "file", name |-> f] : f \in FileNames}

Requests ==
  {[method |-> m, upload |-> [kind |-> "none", name |-> <<>>]] :
     m \in {"OPTIONS", "GET"}}
    \cup {[method |-> "POST", upload |-> u] : u \in Uploads}

\* process.env.GEMINI_API_KEY: unset, empty, or set.
Environments == {Undefined, Str(""), Str("key")}

\* error.message of what multer or the AI client throws.
ErrorMessages == {"failed", ""}

\* The members the object text of a reply can hold: absent, null, an empty
\* or a non-empty string, a number.
TranscriptValues == {Undefined, JSNull, Str(""), Str("hi"), Num("0"), Num("42")}

SummaryValues == {Undefined, JSNull, Str(""), Str("bye"), Num("7")}

Objects == {ObjectValue(t, u) : t \in TranscriptValues, u \in SummaryValues}

\* The replies the handlers are run on: the documented cases, and those
\* that take each branch of the extraction.
ReplyTexts ==
  { <<>>,                                         \* the empty string
    <<"x">>,                                      \* no json here
    <<"W">>,                                      \* white space only
    <<"n">>,                                      \* null
    <<"{", "}">>,                                 \* {}
    <<"O">>,                                      \* the object alone
    <<"F", "J", "W", "O", "W", "F">>,             \* fenced, tagged json
    <<"x", "W", "F", "J", "W", "O", "W", "F">>,   \* prose, then fenced
    <<"x", "O", "x">>,                            \* the object inside prose
    <<"O", "x", "O">>,                            \* two objects
    <<"{", "O">> }                                \* a stray brace

\* The two-call handler never looks into a reply: its texts are opaque.
PlainTexts == {"", "hello", "notes"}

MaxLen == 4

\* Every text of at most MaxLen tokens.
BoundedTexts == UNION {[1..n -> Tokens] : n \in 0..MaxLen}

ExtractObjects ==
  { ObjectValue(Str("hi"), Str("bye")), ObjectValue(Str("hi"), Undefined),
    ObjectValue(Undefined, Undefined) }

\* What awaiting generateContent and reading result.response.text() can
\* give: the call rejects, text() throws, or a text comes back.  Without a
\* credential the provider refuses every call.
ProviderOutcomes(key, texts, objects) ==
  {[kind |-> "reject", msg |-> m, text |-> <<>>, object |-> NoValue] :
     m \in ErrorMessages}
    \cup
  (IF ~Truthy(key) THEN {}
   ELSE {[kind |-> "textThrows", msg |-> "blocked", text |-> <<>>,
          object |-> NoValue]}
          \cup
        {[kind |-> "text", msg |-> "", text |-> t, object |-> o] :
           t \in {u \in texts : "O" \in {u[i] : i \in DOMAIN u}},
           o \in objects}
          \cup
        {[kind |-> "text", msg |-> "", text |-> t, object |-> NoValue] :
           t \in {u \in texts : "O" \notin {u[i] : i \in DOMAIN u}}})

PlainOutcomes(key) ==
  {[kind |-> "reject", msg |-> m, text |-> ""] : m \in ErrorMessages}
    \cup
  (IF ~Truthy(key) THEN {}
   ELSE {[kind |-> "textThrows", msg |-> "blocked", text |-> ""]}
          \cup {[kind |-> "text", msg |-> "", text |-> t] : t \in PlainTexts})

\* Writing a response either completes, or throws once the headers are out.
WriteOutcomes == {"ok", "partial"}

\* A send on a response whose headers are out: the runtime throws
\* ERR_HTTP_HEADERS_SENT, or writes again.
ResendOutcomes == {"refused", "written"}

VARIABLES
  variant,         \* which revision handles the request
  req,             \* the request: method and what the upload holds
  env,             \* process.env.GEMINI_API_KEY
  pc,              \* where the handler is
  res,             \* the response: headers set, headersSent, the sends made
  promise,         \* the promise the handler returned
  caught,          \* the errors that reached the handler's catch block
  aiCalls,         \* the generateContent calls made, in order
  responseText,    \* single: the text of the reply
  object,          \* single: the members of the reply's object text
  cleanedResponse, \* single: the reply without fences, trimmed
  parsedResponse,  \* single: what the extraction produced
  tried,           \* single: the parse strategies run, in order
  transcript,      \* two: the text of the first reply
  summary          \* two: the text of the second reply

vars == <<variant, req, env, pc, res, promise, caught, aiCalls, responseText,
          object, cleanedResponse, parsedResponse, tried, transcript, summary>>

(***************************************************************************)
(* Responses.                                                              *)
(***************************************************************************)
\* The body of res.end(): none.
NoBody ==
  [json |-> FALSE, error |-> Undefined, success |-> Undefined,
   transcript |-> Undefined, summary |-> Undefined]

\* { error, success: false }
ErrorBodySingle(message) ==
  [json |-> TRUE, error |-> message, success |-> Bool("false"),
   transcript |-> Undefined, summary |-> Undefined]

\* { error }
ErrorBodyTwo(message) ==
  [json |-> TRUE, error |-> message, success |-> Undefined,
   transcript |-> Undefined, summary |-> Undefined]

\* The placeholders put on every field: a mutation of SuccessBodySingle.
SuccessBodyPlaceholders(parsed) ==
  [json |-> TRUE, error |-> Undefined, success |-> Bool("true"),
   transcript |-> Str("No transcript available"),
   summary |-> Str("No summary available")]

\* { transcript: parsedResponse.transcript || 'No transcript available',
\*   summary: parsedResponse.summary || 'No summary available', success: true }
SuccessBodySingle(parsed) ==
  [json |-> TRUE, error |-> Undefined, success |-> Bool("true"),
   transcript |-> Or(parsed.transcript, Str("No transcript available")),
   summary |-> Or(parsed.summary, Str("No summary available"))]

\* { transcript, summary, success: true }
SuccessBodyTwo(t, u) ==
  [json |-> TRUE, error |-> Undefined, success |-> Bool("true"),
   transcript |-> Str(t), summary |-> Str(u)]

\* The run of the handler so far: the response, the errors caught, and
\* whether the handler's promise resolves or rejects if the run ends here.
Run == [res |-> res, caught |-> caught, settled |-> "resolved"]

\* res.status(status).json(body), or res.status(status).end(), is called.
write(k, status, body, outcome) ==
  [k EXCEPT !.res.sends = Append(@, [status |-> status, body |-> body,
                                     outcome |-> outcome]),
            !.res.headersSent = TRUE]

\* A send outside any try block: a throw rejects the handler's promise.
sendOutside(k, status, body, w) ==
  [write(k, status, body, w) EXCEPT !.settled =
     IF w = "ok" THEN "resolved" ELSE "rejected"]

\* The catch block of src/api/process-audio.js
catchSingle(k, kind, message, w) ==
  LET k1 == [k EXCEPT !.caught = Append(@, kind)]
  IN  IF ~k1.res.headersSent
        THEN [write(k1, 500,
                    ErrorBodySingle(Or(Str(message),
                                       Str("Internal server error"))), w)
                EXCEPT !.settled = IF w = "ok" THEN "resolved" ELSE "rejected"]
        ELSE k1

\* return res.status(status).json(body) inside the try block of
\* src/api/process-audio.js
sendSingle(k, status, body, w) ==
  IF w = "ok" THEN write(k, status, body, w)
  ELSE catchSingle(write(k, status, body, w), "WriteError", "write failed", w)

\* The catch block of src/unnamed/part_000: it sends whatever was sent.
catchTwo(k, kind, message, w, w2) ==
  LET k1 == [k EXCEPT !.caught = Append(@, kind)]
  IN  IF ~k1.res.headersSent
        THEN [write(k1, 500, ErrorBodyTwo(Str(message)), w)
                EXCEPT !.settled = IF w = "ok" THEN "resolved" ELSE "rejected"]
        ELSE [write(k1, 500, ErrorBodyTwo(Str(message)), w2)
                EXCEPT !.settled =
                  IF w2 = "written" THEN "resolved" ELSE "rejected"]

\* res.status(status).json(body) inside the try block of src/unnamed/part_000
sendTwo(k, status, body, w, w2) ==
  IF w = "ok" THEN write(k, status, body, w)
  ELSE catchTwo(write(k, status, body, w), "WriteError", "write failed", w, w2)

\* The handler returns or throws: its promise settles.
Settle(k) ==
  /\ res' = k.res
  /\ caught' = k.caught
  /\ promise' = k.settled
  /\ pc' = "done"

(***************************************************************************)
(* The extraction of src/api/process-audio.js, from the empty check to the *)
(* second JSON.parse.                                                      *)
(***************************************************************************)
extract(text, obj) ==
  IF text = <<>>
    THEN [result |-> "empty", cleaned |-> <<>>, value |-> NoValue,
          tried |-> <<>>]
    ELSE
      LET cleaned == cleanResponse(text)
          first == JSONparse(cleaned, obj)
      IN  IF first.ok
            THEN [result |-> "parsed", cleaned |-> cleaned,
                  value |-> first.value, tried |-> <<"direct">>]
            ELSE
              LET jsonMatch == matchBraces(cleaned)
              IN  IF jsonMatch = <<>>
                    THEN [result |-> "noMatch", cleaned |-> cleaned,
                          value |-> NoValue, tried |-> <<"direct", "match">>]
                    ELSE
                      LET second == JSONparse(jsonMatch[1], obj)
                      IN  IF second.ok
                            THEN [result |-> "parsed",
                                  cleaned |-> cleaned,
                                  value |-> second.value,
                                  tried |-> <<"direct", "match", "span">>]
                            ELSE [result |-> "parseFailed",
                                  cleaned |-> cleaned,
                                  value |-> NoValue,
                                  tried |-> <<"direct", "match", "span">>]

\* A generateContent call: the prompt, the MIME type of its audio part
\* (Undefined when it has none), the text put into the prompt, the
\* credential the client was built with, and how the call stands.
Call(prompt, mimeType, text) ==
  [prompt |-> prompt, mimeType |-> mimeType, text |-> text, key |-> env,
   state |-> "pending"]

\* The call awaited settles.
Settled(calls, state) == [calls EXCEPT ![Len(calls)].state = state]

Init ==
  /\ variant \in {"single", "two"}
  /\ req \in Requests
  /\ env \in Environments
  /\ pc = "start"
  /\ res = [headers |-> {}, headersSent |-> FALSE, sends |-> <<>>]
  /\ promise = "pending"
  /\ caught = <<>>
  /\ aiCalls = <<>>
  /\ responseText = <<>>
  /\ object = NoValue
  /\ cleanedResponse = <<>>
  /\ parsedResponse = NoValue
  /\ tried = <<>>
  /\ transcript = ""
  /\ summary = ""

(***************************************************************************)
(* src/api/process-audio.js                                                *)
(***************************************************************************)
\* From the invocation to the await of the upload.
HandleSingle ==
  /\ variant = "single"
  /\ pc = "start"
  /\ \E w \in WriteOutcomes :
       LET k == [Run EXCEPT !.res.headers =
                   {"Access-Control-Allow-Origin",
                    "Access-Control-Allow-Methods",
                    "Access-Control-Allow-Headers", "Content-Type"}]
       IN  IF req.method = "OPTIONS"
             THEN Settle(sendOutside(k, 200, NoBody, w))
           ELSE IF req.method # "POST"
             THEN Settle(sendOutside(k, 405,
                    ErrorBodySingle(Str("Method not allowed. Only POST requests are accepted.")),
                    w))
           ELSE /\ res' = k.res
                /\ pc' = "awaitUpload"
                /\ UNCHANGED <<promise, caught>>
  /\ UNCHANGED <<variant, req, env, aiCalls, responseText, object,
                 cleanedResponse, parsedResponse, tried, transcript, summary>>

\* From the end of the upload to the await of generateContent.  The message
\* of the second 400 ends with the extension of the file.
UploadDoneSingle ==
  /\ variant = "single"
  /\ pc = "awaitUpload"
  /\ \E w \in WriteOutcomes, m \in ErrorMessages :
       IF req.upload.kind = "error"
         THEN /\ Settle(catchSingle(Run, "MulterError", m, w))
              /\ UNCHANGED aiCalls
       ELSE IF req.upload.kind = "none"
         THEN /\ Settle(sendSingle(Run, 400,
                   ErrorBodySingle(Str("No audio file provided")), w))
              /\ UNCHANGED aiCalls
       ELSE
         LET mimeType == getMimeTypeSingle(req.upload.name)
         IN  IF ~Truthy(mimeType)
               THEN /\ Settle(sendSingle(Run, 400,
                         ErrorBodySingle(Str("Unsupported file type")), w))
                    /\ UNCHANGED aiCalls
             ELSE IF ~Truthy(env)
               THEN /\ Settle(sendSingle(Run, 500,
                         ErrorBodySingle(Str("API key not configured")), w))
                    /\ UNCHANGED aiCalls
             ELSE /\ aiCalls' = Append(aiCalls, Call("both", mimeType, ""))
                  /\ pc' = "awaitAI"
                  /\ UNCHANGED <<res, promise, caught>>
  /\ UNCHANGED <<variant, req, env, responseText, object, cleanedResponse,
                 parsedResponse, tried, transcript, summary>>

\* From the end of generateContent to the return.
AIResultSingle(texts, objects) ==
  /\ variant = "single"
  /\ pc = "awaitAI"
  /\ \E w \in WriteOutcomes,
        a \in ProviderOutcomes(aiCalls[Len(aiCalls)].key, texts, objects) :
       IF a.kind = "reject"
         THEN /\ aiCalls' = Settled(aiCalls, "rejected")
              /\ Settle(catchSingle(Run, "AIError", a.msg, w))
              /\ UNCHANGED <<responseText, object, cleanedResponse, parsedResponse,
                             tried>>
       ELSE IF a.kind = "textThrows"
         THEN /\ aiCalls' = Settled(aiCalls, "resolved")
              /\ Settle(catchSingle(Run, "TextError", a.msg, w))
              /\ UNCHANGED <<responseText, object, cleanedResponse, parsedResponse,
                             tried>>
       ELSE
         LET x == extract(a.text, a.object)
         IN  /\ aiCalls' = Settled(aiCalls, "resolved")
             /\ responseText' = a.text
             /\ object' = a.object
             /\ cleanedResponse' = x.cleaned
             /\ parsedResponse' = x.value
             /\ tried' = x.tried
             /\ IF x.result = "empty"
                  THEN Settle(sendSingle(Run, 500,
                         ErrorBodySingle(Str("Empty response from AI service")), w))
                ELSE IF x.result = "noMatch"
                  THEN Settle(sendSingle(Run, 500,
                         ErrorBodySingle(Str("Invalid response format from AI service")), w))
                ELSE IF x.result = "parseFailed"
                  THEN Settle(sendSingle(Run, 500,
                         ErrorBodySingle(Str("Failed to parse AI response as JSON")), w))
                ELSE IF x.value.kind = "null"
                  THEN Settle(catchSingle(Run, "TypeError",
                         "Cannot read properties of null", w))
                ELSE IF ~Truthy(x.value.transcript) /\ ~Truthy(x.value.summary)
                  THEN Settle(sendSingle(Run, 500,
                         ErrorBodySingle(Str("AI response missing required fields")), w))
                ELSE Settle(sendSingle(Run, 200, SuccessBodySingle(x.value), w))
  /\ UNCHANGED <<variant, req, env, transcript, summary>>

(***************************************************************************)
(* src/unnamed/part_000                                                    *)
(***************************************************************************)
\* The prompt of the second call without the transcript: a mutation of
\* SummaryCall.
SummaryCallBare(t) == Call("summary", Undefined, "")

\* The second generateContent call: the instruction followed by the
\* transcript, and no audio part.
SummaryCall(t) == Call("summary", Undefined, t)

\* From the invocation to the await of the upload.
HandleTwo ==
  /\ variant = "two"
  /\ pc = "start"
  /\ \E w \in WriteOutcomes :
       LET k == [Run EXCEPT !.res.headers =
                   {"Access-Control-Allow-Origin",
                    "Access-Control-Allow-Methods",
                    "Access-Control-Allow-Headers"}]
       IN  IF req.method = "OPTIONS"
             THEN Settle(sendOutside(k, 200, NoBody, w))
           ELSE IF req.method # "POST"
             THEN Settle(sendOutside(k, 405,
                    ErrorBodyTwo(Str("Method not allowed")), w))
           ELSE /\ res' = k.res
                /\ pc' = "awaitUpload"
                /\ UNCHANGED <<promise, caught>>
  /\ UNCHANGED <<variant, req, env, aiCalls, responseText, object,
                 cleanedResponse, parsedResponse, tried, transcript, summary>>

\* From the end of the upload to the await of the first generateContent.
UploadDoneTwo ==
  /\ variant = "two"
  /\ pc = "awaitUpload"
  /\ \E w \in WriteOutcomes, w2 \in ResendOutcomes :
       IF req.upload.kind = "error"
         THEN /\ Settle([Run EXCEPT !.settled = "rejected"])
              /\ UNCHANGED aiCalls
       ELSE IF req.upload.kind = "none"
         THEN /\ Settle(sendTwo(Run, 400,
                   ErrorBodyTwo(Str("No audio file provided")), w, w2))
              /\ UNCHANGED aiCalls
       ELSE /\ aiCalls' = Append(aiCalls,
                 Call("transcript", getMimeTypeTwo(req.upload.name), ""))
            /\ pc' = "awaitAI"
            /\ UNCHANGED <<res, promise, caught>>
  /\ UNCHANGED <<variant, req, env, responseText, object, cleanedResponse,
                 parsedResponse, tried, transcript, summary>>

\* From the end of the first generateContent to the await of the second.
TranscriptResultTwo ==
  /\ variant = "two"
  /\ pc = "awaitAI"
  /\ \E w \in WriteOutcomes, a \in PlainOutcomes(aiCalls[Len(aiCalls)].key) :
       IF a.kind = "reject"
         THEN /\ aiCalls' = Settled(aiCalls, "rejected")
              /\ Settle(catchTwo(Run, "AIError", a.msg, w, "refused"))
              /\ UNCHANGED transcript
       ELSE IF a.kind = "textThrows"
         THEN /\ aiCalls' = Settled(aiCalls, "resolved")
              /\ Settle(catchTwo(Run, "TextError", a.msg, w, "refused"))
              /\ UNCHANGED transcript
       ELSE /\ transcript' = a.text
            /\ aiCalls' = Append(Settled(aiCalls, "resolved"),
                                 SummaryCall(a.text))
            /\ pc' = "awaitSummary"
            /\ UNCHANGED <<res, promise, caught>>
  /\ UNCHANGED <<variant, req, env, responseText, object, cleanedResponse,
                 parsedResponse, tried, summary>>

\* From the end of the second generateContent to the return.
SummaryResultTwo ==
  /\ variant = "two"
  /\ pc = "awaitSummary"
  /\ \E w \in WriteOutcomes, w2 \in ResendOutcomes,
        a \in PlainOutcomes(aiCalls[Len(aiCalls)].key) :
       IF a.kind = "reject"
         THEN /\ aiCalls' = Settled(aiCalls, "rejected")
              /\ Settle(catchTwo(Run, "AIError", a.msg, w, w2))
              /\ UNCHANGED summary
       ELSE IF a.kind = "textThrows"
         THEN /\ aiCalls' = Settled(aiCalls, "resolved")
              /\ Settle(catchTwo(Run, "TextError", a.msg, w, w2))
              /\ UNCHANGED summary
       ELSE /\ summary' = a.text
            /\ aiCalls' = Settled(aiCalls, "resolved")
            /\ Settle(sendTwo(Run, 200, SuccessBodyTwo(transcript, a.text),
                              w, w2))
  /\ UNCHANGED <<variant, req, env, responseText, object, cleanedResponse,
                 parsedResponse, tried, transcript>>

Next ==
  \/ HandleSingle
  \/ UploadDoneSingle
  \/ AIResultSingle(ReplyTexts, Objects)
  \/ HandleTwo
  \/ UploadDoneTwo
  \/ TranscriptResultTwo
  \/ SummaryResultTwo

Spec == Init /\ [][Next]_vars

\* The extraction alone: the single-call handler on a well-formed upload,
\* with every text of at most MaxLen tokens as the reply.
InitExtract ==
  /\ Init
  /\ variant = "single"
  /\ req = [method |-> "POST",
            upload |-> [kind |-> "file", name |-> <<"a",".","m","p","3">>]]
  /\ env = Str("key")

NextExtract ==
  \/ HandleSingle
  \/ UploadDoneSingle
  \/ AIResultSingle(BoundedTexts, ExtractObjects)

SpecExtract == InitExtract /\ [][NextExtract]_vars

(***************************************************************************)
(* The claims.                                                             *)
(***************************************************************************)
Sends == res.sends

Range(q) == {q[i] : i \in DOMAIN q}

\* The request is a POST with a file whose extension the MIME table holds.
SupportedExtensions ==
  {<<".","m","p","3">>, <<".","w","a","v">>, <<".","m","4","a">>,
   <<".","a","a","c">>, <<".","o","g","g">>, <<".","f","l","a","c">>}

PostWithFile == req.method = "POST" /\ req.upload.kind = "file"

SupportedUpload ==
  PostWithFile /\ toLowerCase(extname(req.upload.name)) \in SupportedExtensions

UnsupportedUpload ==
  PostWithFile /\ toLowerCase(extname(req.upload.name)) \notin SupportedExtensions

\* The single-call handler has read the text of the reply.
TextRead ==
  /\ variant = "single"
  /\ pc = "done"
  /\ Len(aiCalls) = 1
  /\ aiCalls[1].state = "resolved"
  /\ "TextError" \notin Range(caught)

\* C1: the handler sends at most one response to a request: once a send was
\* made, no later step, the catch block included, makes a second one.
C1_AtMostOneResponse == Len(Sends) <= 1

\* C2: every error raised while a POST request is handled (the upload
\* rejecting, the AI call or the reading of its text throwing, a property
\* read on the parsed value throwing) ends as a response: when the handler is
\* done its promise has resolved and a response was sent.  Stated for the
\* runs in which no write of a response fails.
C2_ErrorsBecomeResponses ==
  (/\ pc = "done"
   /\ req.method = "POST"
   /\ \A i \in DOMAIN Sends : Sends[i].outcome = "ok")
    => (promise = "resolved" /\ Len(Sends) >= 1)

\* C3: with GEMINI_API_KEY unset or empty, a POST with a valid audio file
\* makes no generateContent call and ends with status 500.
C3_NoKeyFailsFast ==
  (SupportedUpload /\ ~Truthy(env))
    => /\ aiCalls = <<>>
       /\ pc = "done" => (Len(Sends) >= 1 /\ Sends[1].status = 500)

\* The result obtained from the AI has transcript or summary populated.
ResultPopulated ==
  IF variant = "single"
    THEN Truthy(parsedResponse.transcript) \/ Truthy(parsedResponse.summary)
    ELSE transcript # "" \/ summary # ""

\* C4: on a POST, a response with success:true is a 200 sent only when the
\* result obtained from the AI has transcript or summary populated; every
\* other response is an error response with an error string.
C4_SuccessOnlyWhenPopulated ==
  req.method = "POST" =>
    \A i \in DOMAIN Sends :
      IF Sends[i].body.success = Bool("true")
        THEN Sends[i].status = 200 /\ ResultPopulated
        ELSE /\ Sends[i].status >= 400
             /\ Sends[i].body.json
             /\ Sends[i].body.error.type = "string"

\* C7: every error response has the body {error: string, success: false}.
C7_ErrorEnvelope ==
  \A i \in DOMAIN Sends :
    Sends[i].status >= 400 =>
      /\ Sends[i].body.json
      /\ Sends[i].body.error.type = "string"
      /\ Sends[i].body.success = Bool("false")

\* C8: every 200 response to a POST has the body
\* {transcript: string, summary: string, success: true}.
C8_SuccessFieldsAreStrings ==
  \A i \in DOMAIN Sends :
    (req.method = "POST" /\ Sends[i].status = 200) =>
      /\ Sends[i].body.success = Bool("true")
      /\ Sends[i].body.transcript.type = "string"
      /\ Sends[i].body.summary.type = "string"

\* The tokens that are neither fence, nor tag, nor white space.
IsContent(t) == t \notin {"F", "J", "W"}

\* The span from the first opening brace of s to its last closing brace:
\* <<>> when s has no opening brace followed by (or holding) a closing one.
FirstToLastBrace(s) ==
  LET opens  == {i \in DOMAIN s : s[i] \in {"{", "O"}}
      closes == {i \in DOMAIN s : s[i] \in {"}", "O"}}
  IN  IF opens = {} \/ closes = {} \/ Max(closes) < Min(opens)
        THEN <<>>
        ELSE <<SubSeq(s, Min(opens), Max(closes))>>

\* The one response sent is the error response with this status and message.
SentError(status, message) ==
  /\ Len(Sends) = 1
  /\ Sends[1].status = status
  /\ Sends[1].body = [json |-> TRUE, error |-> Str(message),
                      success |-> Bool("false"), transcript |-> Undefined,
                      summary |-> Undefined]

\* C5: once the single-call handler has read the reply, the outcome of the
\* extraction is that of the ordered chain:
\*  (0) the empty text ends with the 500 "Empty response" error;
\*  (1) the cleaned text holds no fence marker, no white space at its ends,
\*      and everything of the reply that is neither;
\*  (2) if the cleaned text parses, the parsed value is the result and no
\*      other strategy was run;
\*  (3) otherwise, if the cleaned text has a span from its first "{" to its
\*      last "}" and the span parses, the parsed span is the result;
\*  (4) otherwise the request ends with a 500 error: "Invalid response
\*      format" without a span, "Failed to parse" with one;
\* and no failure to parse reaches the handler's catch block.
C5_ExtractionChain ==
  TextRead =>
    IF responseText = <<>>
      THEN /\ SentError(500, "Empty response from AI service")
           /\ tried = <<>>
           /\ caught \in {<<>>, <<"WriteError">>}
      ELSE
        LET direct == JSONparse(cleanedResponse, object)
            span   == FirstToLastBrace(cleanedResponse)
        IN  /\ "F" \notin Range(cleanedResponse)
            /\ cleanedResponse # <<>> =>
                 (cleanedResponse[1] # "W"
                    /\ cleanedResponse[Len(cleanedResponse)] # "W")
            /\ SelectSeq(cleanedResponse, IsContent)
                 = SelectSeq(responseText, IsContent)
            /\ IF direct.ok
                 THEN parsedResponse = direct.value /\ tried = <<"direct">>
               ELSE IF span = <<>>
                 THEN /\ SentError(500, "Invalid response format from AI service")
                      /\ parsedResponse = NoValue
                      /\ caught \in {<<>>, <<"WriteError">>}
               ELSE IF JSONparse(span[1], object).ok
                 THEN /\ parsedResponse = JSONparse(span[1], object).value
                      /\ tried = <<"direct", "match", "span">>
               ELSE /\ SentError(500, "Failed to parse AI response as JSON")
                    /\ parsedResponse = NoValue
                    /\ caught \in {<<>>, <<"WriteError">>}

\* A fenced reply whose object is found by the span after the direct parse
\* failed, and answered with a 200.
C5_Witness ==
  /\ TextRead
  /\ "F" \in Range(responseText)
  /\ tried = <<"direct", "match", "span">>
  /\ parsedResponse = ObjectValue(Str("hi"), Str("bye"))
  /\ Len(Sends) = 1
  /\ Sends[1].status = 200

TranscriptPlaceholder == Str("No transcript available")

SummaryPlaceholder == Str("No summary available")

\* The single-call handler has parsed the reply to an object.
ParsedObject == TextRead /\ parsedResponse.kind = "object"

\* A member of the parsed result is present: the object has it, and it is
\* not null.
Present(v) == v.type \notin {"undefined", "null"}

\* C6, as claimed: when exactly one of transcript and summary is present in
\* the parsed result, the response is a 200 with success:true, the present
\* field unchanged and the absent one replaced by its placeholder; and a
\* present field is never replaced by a placeholder.
C6_PresentNeverReplaced ==
  ParsedObject =>
    LET t == parsedResponse.transcript
        u == parsedResponse.summary
    IN  /\ (Present(t) /\ ~Present(u)) =>
             /\ Len(Sends) = 1
             /\ Sends[1].status = 200
             /\ Sends[1].body.success = Bool("true")
             /\ Sends[1].body.transcript = t
             /\ Sends[1].body.summary = SummaryPlaceholder
        /\ (~Present(t) /\ Present(u)) =>
             /\ Len(Sends) = 1
             /\ Sends[1].status = 200
             /\ Sends[1].body.success = Bool("true")
             /\ Sends[1].body.transcript = TranscriptPlaceholder
             /\ Sends[1].body.summary = u
        /\ \A i \in DOMAIN Sends :
             Sends[i].status = 200 =>
               /\ Present(t) => Sends[i].body.transcript = t
               /\ Present(u) => Sends[i].body.summary = u

\* C6, amended: when exactly one of transcript and summary is populated
\* (present and not empty) in the parsed result, the response is a 200 with
\* success:true, the populated field unchanged and the other one replaced by
\* its placeholder; and a populated field is never replaced by a placeholder.
C6_PopulatedNeverReplaced ==
  ParsedObject =>
    LET t == parsedResponse.transcript
        u == parsedResponse.summary
    IN  /\ (Truthy(t) /\ ~Truthy(u)) =>
             /\ Len(Sends) = 1
             /\ Sends[1].status = 200
             /\ Sends[1].body.success = Bool("true")
             /\ Sends[1].body.transcript = t
             /\ Sends[1].body.summary = SummaryPlaceholder
        /\ (~Truthy(t) /\ Truthy(u)) =>
             /\ Len(Sends) = 1
             /\ Sends[1].status = 200
             /\ Sends[1].body.success = Bool("true")
             /\ Sends[1].body.transcript = TranscriptPlaceholder
             /\ Sends[1].body.summary = u
        /\ \A i \in DOMAIN Sends :
             Sends[i].status = 200 =>
               /\ Truthy(t) => Sends[i].body.transcript = t
               /\ Truthy(u) => Sends[i].body.summary = u

\* The reply {"transcript":"hi"} answered with the summary's placeholder.
C6_Witness ==
  /\ ParsedObject
  /\ parsedResponse = ObjectValue(Str("hi"), Undefined)
  /\ Len(Sends) = 1
  /\ Sends[1].status = 200
  /\ Sends[1].body.transcript = Str("hi")
  /\ Sends[1].body.summary = SummaryPlaceholder

\* C9: for an upload whose lowercased extension is not in the MIME table,
\* the single-call handler makes no AI call and its response is a 400, the
\* two-call handler sends no 400 and makes its call with audio/mpeg; and no
\* call that carries audio has a null or missing MIME type.
C9_UnsupportedExtensionPolicy ==
  /\ UnsupportedUpload =>
       IF variant = "single"
         THEN /\ aiCalls = <<>>
              /\ pc = "done" => (Len(Sends) = 1 /\ Sends[1].status = 400)
         ELSE /\ \A i \in DOMAIN Sends : Sends[i].status # 400
              /\ pc \notin {"start", "awaitUpload"} =>
                   /\ Len(aiCalls) >= 1
                   /\ aiCalls[1].mimeType = Str("audio/mpeg")
  /\ \A i \in DOMAIN aiCalls :
       aiCalls[i].prompt # "summary" =>
         /\ aiCalls[i].mimeType.type = "string"
         /\ aiCalls[i].mimeType.val
              \in {"audio/mpeg", "audio/wav", "audio/mp4", "audio/aac",
                   "audio/ogg", "audio/flac"}

\* The two-call handler has called the provider with audio/mpeg for a.xyz.
C9_Witness ==
  /\ variant = "two"
  /\ UnsupportedUpload
  /\ req.upload.name = <<"a",".","x","y","z">>
  /\ pc = "done"
  /\ aiCalls[1].mimeType = Str("audio/mpeg")
  /\ aiCalls[1].state = "resolved"

\* The second call of the two-call handler failed: it rejected, or the
\* reading of its text threw.
SummaryFailed ==
  /\ variant = "two"
  /\ pc = "done"
  /\ Len(aiCalls) = 2
  /\ \/ aiCalls[2].state = "rejected"
     \/ "TextError" \in Range(caught)

\* C10: in the two-call handler the summary call is the second call, made
\* once the transcript call has resolved and its text was read, with that
\* transcript in its prompt; at most one call is pending at any time and
\* each call is made at most once; and when the summary call fails the
\* request ends with one 500 error response that carries no transcript.
C10_SequentialCalls ==
  variant = "two" =>
    /\ Len(aiCalls) <= 2
    /\ \A i \in DOMAIN aiCalls :
         /\ aiCalls[i].prompt = (IF i = 1 THEN "transcript" ELSE "summary")
         /\ aiCalls[i].state = "pending" => i = Len(aiCalls)
    /\ Len(aiCalls) = 2 =>
         /\ aiCalls[1].state = "resolved"
         /\ aiCalls[2].text = transcript
         /\ pc = "awaitSummary" => (caught = <<>> /\ Sends = <<>>)
    /\ SummaryFailed =>
         /\ Len(Sends) = 1
         /\ Sends[1].status = 500
         /\ Sends[1].body.error.type = "string"
         /\ Sends[1].body.transcript = Undefined
         /\ Sends[1].body.summary = Undefined
         /\ Sends[1].body.success # Bool("true")

\* The transcript "hello" was obtained, the summary call rejected, and the
\* request ended with a 500.
C10_Witness ==
  /\ SummaryFailed
  /\ transcript = "hello"
  /\ aiCalls[2].text = "hello"
  /\ aiCalls[2].state = "rejected"
  /\ Sends[1].status = 500

=============================================================================
